---- MODULE Spec2Model ----
(***************************************************************************)
(* fillstruct: completion of keyed struct literals with the missing        *)
(* exported fields.  The model covers Format (the dst.Inspect callback,    *)
(* the result construction), generateZeroValue / typeToExpr, and the       *)
(* write-and-reload step that feeds Format's output to a second run        *)
(* (specification Spec); and the command-line driver: main,                *)
(* ResolveTargetTypes, parseDefaultValues, run and its goroutines          *)
(* (specification CliSpec).                                                *)
(***************************************************************************)
EXTENDS Integers, Sequences, FiniteSets

(* ------------------------------ bounds -------------------------------- *)
\* longest field list of the struct type T under test
MaxFields == 3
\* number of Format runs over the same file (run n+1 reads run n's output)
MaxRuns == 2

(* --------------------------- go/types model --------------------------- *)
\* types.Type values are records tagged by "kind"; a Named type carries the
\* package of its object and its underlying type.
Basic(bk, nm) == [kind |-> "Basic", bkind |-> bk, name |-> nm]
Pointer(e) == [kind |-> "Pointer", elem |-> e]
Slice(e) == [kind |-> "Slice", elem |-> e]
Array(n, e) == [kind |-> "Array", len |-> n, elem |-> e]
Map(k, v) == [kind |-> "Map", key |-> k, elem |-> v]
Chan(e) == [kind |-> "Chan", elem |-> e]
Signature == [kind |-> "Signature"]
Interface == [kind |-> "Interface"]
Struct(fs) == [kind |-> "Struct", fields |-> fs]
Tuple == [kind |-> "Tuple"]
Named(hp, pp, pn, nm, u) ==
    [kind |-> "Named", hasPkg |-> hp, pkgPath |-> pp, pkgName |-> pn,
     name |-> nm, underlying |-> u]
\* the absence of a type (a nil *types.Struct / *types.Named, a missing
\* TypesInfo entry)
NoType == [kind |-> "None"]
\* types.Typ[types.Invalid], the type of an expression that does not type-check
Invalid == Basic("Invalid", "invalid type")

Field(n, t) == [fname |-> n, ftype |-> t]

\* Underlying() of a type: a Named type's underlying type, else the type itself
Underlying(t) == IF t.kind = "Named" THEN t.underlying ELSE t

NumericKinds ==
    {"Int", "Int8", "Int16", "Int32", "Int64",
     "Uint", "Uint8", "Uint16", "Uint32", "Uint64", "Uintptr",
     "Float32", "Float64", "Complex64", "Complex128"}

BoolT == Basic("Bool", "bool")
StringT == Basic("String", "string")
IntT == Basic("Int", "int")

BasicTypes ==
    {BoolT, StringT, IntT,
     Basic("Int8", "int8"), Basic("Int16", "int16"), Basic("Int32", "int32"),
     Basic("Int64", "int64"), Basic("Uint", "uint"), Basic("Uint8", "uint8"),
     Basic("Uint16", "uint16"), Basic("Uint32", "uint32"),
     Basic("Uint64", "uint64"), Basic("Uintptr", "uintptr"),
     Basic("Float32", "float32"), Basic("Float64", "float64"),
     Basic("Complex64", "complex64"), Basic("Complex128", "complex128"),
     Basic("UnsafePointer", "Pointer")}

(* ------------------------ packages of the program --------------------- *)
\* the package of the file being formatted (pkg.Types.Path())
CurPkgPath == "example.com/app"
CurPkg == [path |-> CurPkgPath, name |-> "app"]

\* field names are rune sequences, so that the first rune can be decoded
City == <<"C", "i", "t", "y">>
NameA == <<"A">>
NameB == <<"B">>
NameC == <<"C">>
Namec == <<"c">>

Local(nm, u) == Named(TRUE, CurPkgPath, "app", nm, u)

\* named types declared in the current package, next to the struct T
Address == Local("Address", Struct(<<Field(City, StringT)>>))
Status == Local("Status", IntT)
Flag == Local("Flag", BoolT)
Label == Local("Label", StringT)
Ratio == Local("Ratio", Basic("Float64", "float64"))
Stringer == Local("Stringer", Interface)
Tags == Local("Tags", Slice(StringT))
Ref == Local("Ref", Pointer(IntT))
Dict == Local("Dict", Map(StringT, IntT))
Queue == Local("Queue", Chan(IntT))
Hook == Local("Hook", Signature)
Pair == Local("Pair", Array(2, IntT))

\* named types of other packages; "time" and "geo" are imported by the
\* file, "net/url" is not
TimeT ==
    Named(TRUE, "time", "time", "Time",
          Struct(<<Field(<<"w", "a", "l", "l">>, Basic("Uint64", "uint64")),
                   Field(<<"e", "x", "t">>, Basic("Int64", "int64"))>>))
Point ==
    Named(TRUE, "example.com/geo", "geo", "Point",
          Struct(<<Field(<<"X">>, IntT)>>))
URL ==
    Named(TRUE, "net/url", "url", "URL",
          Struct(<<Field(<<"H", "o", "s", "t">>, StringT)>>))
\* the predeclared error type: a Named type whose object has no package
ErrorT == Named(FALSE, "", "", "error", Interface)

\* the struct type under test, declared in the current package
TType(fs) == Local("T", Struct(fs))
\* a struct type of another package that is also called T
GeoT == Named(TRUE, "example.com/geo", "geo", "T", Struct(<<Field(<<"X">>, IntT)>>))

(* ------------------------- dst expression model ----------------------- *)
NoExpr == [kind |-> "NoExpr"]
Ident(n) == [kind |-> "Ident", Name |-> n]
BasicLit(k, v) == [kind |-> "BasicLit", Kind |-> k, Value |-> v]
SelectorExpr(x, sel) == [kind |-> "SelectorExpr", X |-> x, Sel |-> sel]
StarExpr(x) == [kind |-> "StarExpr", X |-> x]
ArrayType(l, e) == [kind |-> "ArrayType", Len |-> l, Elt |-> e]
\* a composite literal as an expression: its type expression, its elements,
\* and, for a literal of the source file (src), the type the type checker
\* gave it
SrcLit(t, es, ty) ==
    [kind |-> "CompositeLit", Type |-> t, Elts |-> es, src |-> TRUE, tv |-> ty]
\* &dst.CompositeLit{Type: t}, a literal created by Format: no element, no
\* ast node, no type information
CompositeLit(t) ==
    [kind |-> "CompositeLit", Type |-> t, Elts |-> <<>>, src |-> FALSE,
     tv |-> [kind |-> "None"]]
\* an expression of the source file the tool never looks into
SrcExpr(i) == [kind |-> "SrcExpr", id |-> i]
\* a composite literal of the file, held in nodes[n]
LitRef(n) == [kind |-> "LitRef", node |-> n]

\* dst.SpaceType decorations of a node
DecsNone == [Before |-> "None", After |-> "None"]
DecsNewLine == [Before |-> "NewLine", After |-> "NewLine"]

\* a *dst.KeyValueExpr with an Ident key (keyed) or a bare expression
KeyValueExpr(k, v, d) == [keyed |-> TRUE, Key |-> k, Value |-> v, Decs |-> d]
Positional(v, d) == [keyed |-> FALSE, Key |-> <<>>, Value |-> v, Decs |-> d]

(* --------------------------- pure functions --------------------------- *)
Digits == <<"0", "1", "2", "3", "4", "5", "6", "7", "8", "9">>

\* fmt.Sprintf("%d", n) for n >= 0
RECURSIVE SprintfD(_)
SprintfD(n) ==
    IF n < 10 THEN Digits[n + 1]
    ELSE SprintfD(n \div 10) \o Digits[(n % 10) + 1]

UpperRunes ==
    {"A", "B", "C", "D", "E", "F", "G", "H", "I", "J", "K", "L", "M",
     "N", "O", "P", "Q", "R", "S", "T", "U", "V", "W", "X", "Y", "Z"}

\* isExportedField with every name exported (mutation of isExportedField)
isExportedFieldAnyName(name) == name # <<>>

\* isExportedField: the first rune of the name is upper case
isExportedField(name) ==
    IF name = <<>> THEN FALSE ELSE Head(name) \in UpperRunes

\* isAllKeyed looking at the first element only (mutation of isAllKeyed)
isAllKeyedFirstOnly(elts) ==
    IF Len(elts) = 0 THEN TRUE ELSE elts[1].keyed

\* isAllKeyed: every element is a KeyValueExpr (true of an empty list)
isAllKeyed(elts) ==
    IF Len(elts) = 0 THEN TRUE
    ELSE \A i \in 1..Len(elts) : elts[i].keyed

\* typeToExpr: the type expression of an array element type
RECURSIVE typeToExpr(_)
typeToExpr(t) ==
    CASE t.kind = "Basic" -> Ident(t.name)
      [] t.kind = "Named" -> Ident(t.name)
      [] t.kind = "Pointer" -> StarExpr(typeToExpr(t.elem))
      [] t.kind = "Slice" -> ArrayType(NoExpr, typeToExpr(t.elem))
      [] t.kind = "Array" ->
           ArrayType(BasicLit("INT", SprintfD(t.len)), typeToExpr(t.elem))
      [] OTHER -> Ident("interface{}")

\* the basic-kind switch with the complex kinds left out of the numeric case
\* (mutation of basicZeroValue)
basicZeroValueNoComplex(bkind) ==
    CASE bkind = "Bool" -> Ident("false")
      [] bkind = "String" -> BasicLit("STRING", "\"\"")
      [] bkind \in NumericKinds \ {"Complex64", "Complex128"} ->
           BasicLit("INT", "0")
      [] OTHER -> Ident("nil")

\* generateZeroValue, case *types.Basic: the switch on t.Kind()
basicZeroValue(bkind) ==
    CASE bkind = "Bool" -> Ident("false")
      [] bkind = "String" -> BasicLit("STRING", "\"\"")
      [] bkind \in NumericKinds -> BasicLit("INT", "0")
      [] OTHER -> Ident("nil")

\* the named-type literal never qualified with the package name (mutation of
\* namedCompositeLit)
namedCompositeLitUnqualified(t, pkg) == CompositeLit(Ident(t.name))

\* generateZeroValue, case *types.Named, after the interface and basic
\* checks: a composite literal of the type, its name qualified with the
\* package name when the type's package is not the package being formatted
namedCompositeLit(t, pkg) ==
    IF t.hasPkg /\ t.pkgPath # pkg.path
    THEN CompositeLit(SelectorExpr(Ident(t.pkgName), Ident(t.name)))
    ELSE CompositeLit(Ident(t.name))

\* generateZeroValue: the zero value expression of a type
RECURSIVE generateZeroValue(_, _)
generateZeroValue(t, pkg) ==
    CASE t.kind = "Basic" -> basicZeroValue(t.bkind)
      [] t.kind \in {"Pointer", "Slice", "Map", "Chan", "Signature",
                     "Interface"} -> Ident("nil")
      [] t.kind = "Struct" -> CompositeLit(NoExpr)
      [] t.kind = "Named" ->
           IF t.underlying.kind = "Interface" THEN Ident("nil")
           ELSE IF t.underlying.kind = "Basic"
                THEN generateZeroValue(t.underlying, pkg)
           ELSE namedCompositeLit(t, pkg)
      [] t.kind = "Array" ->
           CompositeLit(ArrayType(BasicLit("INT", SprintfD(t.len)),
                                  typeToExpr(t.elem)))
      [] OTHER -> Ident("nil")

\* the key of a type in the custom-defaults table: "packagePath.TypeName"
\* for a named type, the basic-kind name for a basic type
OverrideKey(t) ==
    CASE t.kind = "Named" /\ t.hasPkg -> t.pkgPath \o "." \o t.name
      [] t.kind = "Named" -> t.name
      [] t.kind = "Basic" -> t.name
      [] OTHER -> ""

\* defaultFor that never consults the table (mutation of defaultFor)
defaultForIgnoringTable(t, overrides, pkg) == generateZeroValue(t, pkg)

\* the default value policy: a custom default wins over the zero value
defaultFor(t, overrides, pkg) ==
    IF OverrideKey(t) \in DOMAIN overrides
    THEN Ident(overrides[OverrideKey(t)])
    ELSE generateZeroValue(t, pkg)

(* ------------------------- the literal matcher ------------------------ *)
\* the switch on tv.Type: the struct type of a literal, through a named
\* type or a pointer to a named type, or none
StructTypeOf(tv) ==
    CASE tv.kind = "Named" ->
           IF tv.underlying.kind = "Struct" THEN tv.underlying ELSE NoType
      [] tv.kind = "Pointer" ->
           IF tv.elem.kind = "Named" /\ tv.elem.underlying.kind = "Struct"
           THEN tv.elem.underlying ELSE NoType
      [] tv.kind = "Struct" -> tv
      [] OTHER -> NoType

\* the same switch: the named type of a literal, or none
NamedTypeOf(tv) ==
    CASE tv.kind = "Named" ->
           IF tv.underlying.kind = "Struct" THEN tv ELSE NoType
      [] tv.kind = "Pointer" ->
           IF tv.elem.kind = "Named" /\ tv.elem.underlying.kind = "Struct"
           THEN tv.elem ELSE NoType
      [] OTHER -> NoType

\* the loop comparing type names only (mutation of Matched)
MatchedByNameOnly(namedType, targets) ==
    \E i \in 1..Len(targets) : namedType.name = targets[i].name

\* the loop over option.TargetTypes: package path and type name agree
Matched(namedType, targets) ==
    \E i \in 1..Len(targets) :
        /\ namedType.pkgPath = targets[i].pkgPath
        /\ namedType.name = targets[i].name

\* the target filter: passes when no target is given; otherwise the literal
\* has a named type that matches a target
TargetAccepts(tv, targets) ==
    IF Len(targets) > 0
    THEN NamedTypeOf(tv) # NoType /\ Matched(NamedTypeOf(tv), targets)
    ELSE TRUE

(* ------------------------ the completion rewriter --------------------- *)
\* presentFields: the names that key an element
PresentFields(elts) == {elts[i].Key : i \in {j \in 1..Len(elts) : elts[j].keyed}}

\* allFields: the exported fields of the struct, in declaration order
RECURSIVE ExportedFrom(_, _)
ExportedFrom(fs, i) ==
    IF i > Len(fs) THEN <<>>
    ELSE (IF isExportedField(fs[i].fname)
          THEN <<[index |-> i - 1, name |-> fs[i].fname,
                  fieldType |-> fs[i].ftype]>>
          ELSE <<>>) \o ExportedFrom(fs, i + 1)

AllFields(structType) == ExportedFrom(structType.fields, 1)

\* hasMissing that reports a missing field for every literal (mutation of
\* HasMissing)
HasMissingAlways(allFields, presentFields) == TRUE

\* hasMissing: some exported field keys no element
HasMissing(allFields, presentFields) ==
    \E i \in 1..Len(allFields) : allFields[i].name \notin presentFields

\* existingKVs[name]: the last element keyed by name
ExistingKV(elts, name) ==
    LET at == {i \in 1..Len(elts) : elts[i].keyed /\ elts[i].Key = name}
    IN elts[CHOOSE i \in at : \A j \in at : j <= i]

\* sampleKV: the first keyed element; its decorations go to new elements,
\* NewLine decorations when there is none
SampleDecs(elts) ==
    LET at == {i \in 1..Len(elts) : elts[i].keyed}
    IN IF at = {} THEN DecsNewLine
       ELSE LET s == elts[CHOOSE i \in at : \A j \in at : i <= j]
            IN [Before |-> s.Decs.Before, After |-> s.Decs.After]

\* the element of one field: the existing element, or a new one holding
\* the default value of the field's type
FieldElt(field, elts, overrides, pkg) ==
    IF field.name \in PresentFields(elts)
    THEN ExistingKV(elts, field.name)
    ELSE KeyValueExpr(field.name,
                      defaultFor(field.fieldType, overrides, pkg),
                      SampleDecs(elts))

\* the elements of elts at the positions at, in order
RECURSIVE SeqOfSet(_, _)
SeqOfSet(elts, at) ==
    IF at = {} THEN <<>>
    ELSE LET i == CHOOSE x \in at : \A y \in at : x <= y
         IN <<elts[i]>> \o SeqOfSet(elts, at \ {i})

\* newElts that keeps the existing elements in place and appends the new
\* ones (mutation of NewElts)
NewEltsAppending(allFields, elts, overrides, pkg) ==
    elts \o
    SeqOfSet([i \in 1..Len(allFields) |->
                 FieldElt(allFields[i], elts, overrides, pkg)],
             {i \in 1..Len(allFields) :
                 allFields[i].name \notin PresentFields(elts)})

\* newElts: one element per exported field, in declaration order
NewElts(allFields, elts, overrides, pkg) ==
    [i \in 1..Len(allFields) |-> FieldElt(allFields[i], elts, overrides, pkg)]

\* the dst.Inspect callback on the composite literal nodes[id]; st holds the
\* tree and the changed flag
Callback(st, id, option, pkg) ==
    LET lit == st.nodes[id]
        structType == StructTypeOf(lit.tv)
        allFields == AllFields(structType)
    IN IF ~lit.ast \/ lit.tv = NoType THEN st
       ELSE IF structType = NoType THEN st
       ELSE IF ~TargetAccepts(lit.tv, option.TargetTypes) THEN st
       ELSE IF ~isAllKeyed(lit.Elts) THEN st
       ELSE IF ~HasMissing(allFields, PresentFields(lit.Elts)) THEN st
       ELSE [nodes |-> [st.nodes EXCEPT ![id].Elts =
                           NewElts(allFields, lit.Elts,
                                   option.CustomDefaults, pkg)],
             changed |-> TRUE]

\* the literals that are element values of a literal, in element order
ChildIds(lit) ==
    LET at == {i \in 1..Len(lit.Elts) : lit.Elts[i].Value.kind = "LitRef"}
    IN [k \in 1..Cardinality(at) |->
           lit.Elts[CHOOSE i \in at :
                       Cardinality({j \in at : j < i}) = k - 1].Value.node]

\* dst.Inspect: the callback on a literal, then on the literals below it,
\* read from the element list the callback left.  A literal Format created
\* is visited too, and skipped for want of an ast node (it is an expression
\* of kind CompositeLit, not a node of the tree).
RECURSIVE Inspect(_, _, _, _)
RECURSIVE InspectAll(_, _, _, _)
Inspect(st, id, option, pkg) ==
    LET st1 == Callback(st, id, option, pkg)
    IN InspectAll(st1, ChildIds(st1.nodes[id]), option, pkg)

InspectAll(st, ids, option, pkg) ==
    IF ids = <<>> THEN st
    ELSE InspectAll(Inspect(st, Head(ids), option, pkg), Tail(ids), option, pkg)

(* --------------------------- print and parse -------------------------- *)
\* decorator.Fprint + format.Source: the text of a literal, the literals
\* below it in place
RECURSIVE Fprint(_, _)
Fprint(ns, id) ==
    SrcLit(ns[id].Type,
           [i \in 1..Len(ns[id].Elts) |->
               IF ns[id].Elts[i].Value.kind = "LitRef"
               THEN [ns[id].Elts[i] EXCEPT
                        !.Value = Fprint(ns, ns[id].Elts[i].Value.node)]
               ELSE ns[id].Elts[i]],
           ns[id].tv)

PrintFile(ns, tops) == [i \in 1..Len(tops) |-> Fprint(ns, tops[i])]

\* the named types the file can name: those of its own package (with T,
\* whose fields are decl) and those of the packages it imports
FileScope(decl) ==
    {TType(decl), Address, Status, Flag, Label, Ratio, Stringer, Tags, Ref,
     Dict, Queue, Hook, Pair}
Imported == {TimeT, Point}

\* the type checker on a type expression Format wrote
RECURSIVE TypeOfExpr(_, _)
TypeOfExpr(e, decl) ==
    CASE e.kind = "Ident" ->
           IF \E t \in FileScope(decl) : t.name = e.Name
           THEN CHOOSE t \in FileScope(decl) : t.name = e.Name
           ELSE IF \E t \in BasicTypes : t.name = e.Name
                THEN CHOOSE t \in BasicTypes : t.name = e.Name
           ELSE IF e.Name = "interface{}" THEN Interface
           ELSE Invalid
      [] e.kind = "SelectorExpr" ->
           IF \E t \in Imported : t.pkgName = e.X.Name /\ t.name = e.Sel.Name
           THEN CHOOSE t \in Imported :
                    t.pkgName = e.X.Name /\ t.name = e.Sel.Name
           ELSE Invalid
      [] e.kind = "StarExpr" -> Pointer(TypeOfExpr(e.X, decl))
      [] e.kind = "ArrayType" ->
           IF e.Len = NoExpr THEN Slice(TypeOfExpr(e.Elt, decl))
           ELSE Array(CHOOSE n \in 0..99 : SprintfD(n) = e.Len.Value,
                      TypeOfExpr(e.Elt, decl))
      [] OTHER -> Invalid

\* a composite literal node of the decorated file: its elements, whether
\* dec.Ast.Nodes maps it to an ast node, and its pkg.TypesInfo.Types entry
Node(t, es, ty) == [Type |-> t, Elts |-> es, ast |-> TRUE, tv |-> ty]

\* packages.Load + DecorateFile on a printed file: every literal of the
\* text becomes a node with an ast node; a literal of the source keeps its
\* type, a literal Format wrote gets the type of its type expression
RECURSIVE ParseLit(_, _, _)
RECURSIVE ParseElts(_, _, _, _)
ParseLit(ns, text, decl) ==
    LET id == Len(ns) + 1
        ty == IF text.src THEN text.tv ELSE TypeOfExpr(text.Type, decl)
        r == ParseElts(Append(ns, Node(text.Type, <<>>, ty)), text.Elts,
                       <<>>, decl)
    IN [nodes |-> [r.nodes EXCEPT ![id].Elts = r.elts], id |-> id]

ParseElts(ns, telts, acc, decl) ==
    IF telts = <<>> THEN [nodes |-> ns, elts |-> acc]
    ELSE IF Head(telts).Value.kind = "CompositeLit"
         THEN LET p == ParseLit(ns, Head(telts).Value, decl)
              IN ParseElts(p.nodes, Tail(telts),
                           Append(acc, [Head(telts) EXCEPT
                                           !.Value = LitRef(p.id)]),
                           decl)
         ELSE ParseElts(ns, Tail(telts), Append(acc, Head(telts)), decl)

RECURSIVE ParseFile(_, _, _)
ParseFile(file, decl, acc) ==
    IF file = <<>> THEN acc
    ELSE LET p == ParseLit(acc.nodes, Head(file), decl)
         IN ParseFile(Tail(file), decl,
                      [nodes |-> p.nodes, tops |-> Append(acc.tops, p.id)])

(* -------------------------------- Format ------------------------------ *)
NoResult == [present |-> FALSE]
FormatResult(path, output, errors, changed) ==
    [present |-> TRUE, Path |-> path, Output |-> output, Errors |-> errors,
     Changed |-> changed]
NoErr == ""
FilePath == "input.go"

\* the failures of Format's collaborators: DecorateFile, decorator.Fprint,
\* format.Source
Faults == {"none", "decorate", "print", "format"}

\* Format printing the file before it looks at the changed flag, so that an
\* unchanged file is returned with its text (mutation of Format)
FormatPrintingFirst(ns, tops, option, pkg, fault) ==
    LET st == InspectAll([nodes |-> ns, changed |-> FALSE], tops, option, pkg)
    IN IF fault = "decorate"
       THEN [nodes |-> ns, result |-> NoResult,
             err |-> "failed to decorate file"]
       ELSE IF fault = "print"
       THEN [nodes |-> st.nodes, result |-> NoResult,
             err |-> "failed to print dst file"]
       ELSE IF fault = "format"
       THEN [nodes |-> st.nodes, result |-> NoResult,
             err |-> "failed to format source"]
       ELSE [nodes |-> st.nodes,
             result |-> FormatResult(FilePath, PrintFile(st.nodes, tops),
                                     <<>>, st.changed),
             err |-> NoErr]

\* Format on the file (ns, tops): the tree it leaves, the result and the
\* error it returns
Format(ns, tops, option, pkg, fault) ==
    LET st == InspectAll([nodes |-> ns, changed |-> FALSE], tops, option, pkg)
    IN IF fault = "decorate"
       THEN [nodes |-> ns, result |-> NoResult,
             err |-> "failed to decorate file"]
       ELSE IF ~st.changed
       THEN [nodes |-> st.nodes,
             result |-> FormatResult(FilePath, <<>>, <<>>, FALSE),
             err |-> NoErr]
       ELSE IF fault = "print"
       THEN [nodes |-> st.nodes, result |-> NoResult,
             err |-> "failed to print dst file"]
       ELSE IF fault = "format"
       THEN [nodes |-> st.nodes, result |-> NoResult,
             err |-> "failed to format source"]
       ELSE [nodes |-> st.nodes,
             result |-> FormatResult(FilePath, PrintFile(st.nodes, tops),
                                     <<>>, TRUE),
             err |-> NoErr]

(* ---------------------- command-line specifiers ------------------------ *)
\* A flag value is a sequence of pieces: "=", "." and " " are pieces of
\* their own, every other piece is a non-empty run of other characters.
RECURSIVE Str(_)
Str(s) == IF s = <<>> THEN "" ELSE Head(s) \o Str(Tail(s))

\* the least and the greatest element of a non-empty set of positions
First(at) == CHOOSE i \in at : \A j \in at : i <= j
Last(at) == CHOOSE i \in at : \A j \in at : j <= i

\* strings.SplitN(spec, "=", 2): the whole string when it has no "=", else
\* what is before and what is after the first "="
SplitN2(spec) ==
    LET at == {i \in 1..Len(spec) : spec[i] = "="}
    IN IF at = {} THEN <<spec>>
       ELSE <<SubSeq(spec, 1, First(at) - 1),
              SubSeq(spec, First(at) + 1, Len(spec))>>

\* strings.TrimSpace: leading and trailing white space removed
TrimSpace(s) ==
    LET at == {i \in 1..Len(s) : s[i] # " "}
    IN IF at = {} THEN <<>> ELSE SubSeq(s, First(at), Last(at))

\* a nil map[string]string; it reads like a map with no key
NilMap == [k \in {} |-> ""]
\* defaults[k] = v
MapPut(m, k, v) == [x \in DOMAIN m \cup {k} |-> IF x = k THEN v ELSE m[x]]

\* parseDefaultValues going on to the next specifier when one is malformed
\* (mutation of parseDefaultValues)
RECURSIVE ParseSkipping(_, _, _)
ParseSkipping(specs, i, defaults) ==
    IF i > Len(specs) THEN [defaults |-> defaults, err |-> NoErr]
    ELSE LET parts == SplitN2(specs[i])
         IN IF Len(parts) # 2 THEN ParseSkipping(specs, i + 1, defaults)
            ELSE IF TrimSpace(parts[1]) = <<>> \/ TrimSpace(parts[2]) = <<>>
            THEN ParseSkipping(specs, i + 1, defaults)
            ELSE ParseSkipping(specs, i + 1,
                               MapPut(defaults, Str(TrimSpace(parts[1])),
                                      Str(TrimSpace(parts[2]))))

parseDefaultValuesSkipping(specs) == ParseSkipping(specs, 1, NilMap)

\* parseDefaultValues, the loop from specifier i on
RECURSIVE ParseFrom(_, _, _)
ParseFrom(specs, i, defaults) ==
    IF i > Len(specs) THEN [defaults |-> defaults, err |-> NoErr]
    ELSE LET parts == SplitN2(specs[i])
             typeSpec == TrimSpace(parts[1])
             constantName == TrimSpace(parts[2])
         IN IF Len(parts) # 2
            THEN [defaults |-> NilMap, err |-> "invalid format"]
            ELSE IF typeSpec = <<>> \/ constantName = <<>>
            THEN [defaults |-> NilMap,
                  err |-> "type and constant cannot be empty"]
            ELSE ParseFrom(specs, i + 1,
                           MapPut(defaults, Str(typeSpec), Str(constantName)))

\* parseDefaultValues: the table of the specifiers "TypeSpec=ConstantName",
\* or an error and a nil table
parseDefaultValues(specs) ==
    IF Len(specs) = 0 THEN [defaults |-> NilMap, err |-> NoErr]
    ELSE ParseFrom(specs, 1, NilMap)

(* ------------------------- the loadable packages ---------------------- *)
\* objects of a package scope
TypeName(t) == [okind |-> "TypeName", type |-> t]
FuncObj == [okind |-> "Func", type |-> Signature]
\* a *packages.Package: whether it has Errors, and its Types.Scope()
Package(errs, scope) == [Errors |-> errs, scope |-> scope]
NoScope == [n \in {} |-> FuncObj]

\* the scope of example.com/app, where T has the fields d
AppScope(d) ==
    [n \in {"T", "Address", "Status", "Alias", "main"} |->
        CASE n = "T" -> TypeName(TType(d))
          [] n = "Address" -> TypeName(Address)
          [] n = "Status" -> TypeName(Status)
          [] n = "Alias" -> TypeName(Struct(<<Field(City, StringT)>>))
          [] OTHER -> FuncObj]
\* its external test package declares a type named main
AppTestScope == [n \in {"main"} |-> TypeName(Label)]
GeoScope ==
    [n \in {"Point", "T"} |-> IF n = "Point" THEN TypeName(Point)
                              ELSE TypeName(GeoT)]

\* packages.Load(cfg, importPath) with Tests: true
Load(importPath, d) ==
    CASE importPath = "example.com/app" ->
           [err |-> FALSE,
            pkgs |-> <<Package(FALSE, AppScope(d)),
                       Package(FALSE, AppTestScope)>>]
      [] importPath = "example.com/geo" ->
           [err |-> FALSE,
            pkgs |-> <<Package(TRUE, NoScope), Package(FALSE, GeoScope)>>]
      [] importPath = "example.com/broken" ->
           [err |-> FALSE, pkgs |-> <<Package(TRUE, AppScope(d))>>]
      [] importPath = "example.com/empty" ->
           [err |-> FALSE, pkgs |-> <<>>]
      [] importPath = "example.com/unreadable" ->
           [err |-> TRUE, pkgs |-> <<>>]
      [] OTHER -> [err |-> FALSE, pkgs |-> <<Package(TRUE, NoScope)>>]

(* -------------------------- ResolveTargetTypes ------------------------ *)
NoTargets == <<>>

\* the position of the last "." of a specifier, 0 when it has none
LastDot(spec) ==
    LET at == {i \in 1..Len(spec) : spec[i] = "."}
    IN IF at = {} THEN 0 ELSE Last(at)

\* the loop over the loaded packages: the first package without errors
\* whose scope has typeName
FoundAt(pkgs, typeName) ==
    {i \in 1..Len(pkgs) :
        ~pkgs[i].Errors /\ typeName \in DOMAIN pkgs[i].scope}

\* ResolveTargetTypes leaving out the specifiers it cannot resolve (mutation
\* of ResolveFrom)
RECURSIVE ResolveSkipping(_, _, _, _)
ResolveSkipping(typeSpecs, i, targetTypes, d) ==
    IF i > Len(typeSpecs) THEN [targets |-> targetTypes, err |-> NoErr]
    ELSE LET spec == typeSpecs[i]
             lastDot == LastDot(spec)
             loaded == Load(Str(SubSeq(spec, 1, lastDot - 1)), d)
             typeName == Str(SubSeq(spec, lastDot + 1, Len(spec)))
             at == FoundAt(loaded.pkgs, typeName)
             obj == loaded.pkgs[First(at)].scope[typeName]
         IN IF lastDot = 0 \/ lastDot = 1 \/ lastDot = Len(spec)
               \/ loaded.err \/ at = {}
            THEN ResolveSkipping(typeSpecs, i + 1, targetTypes, d)
            ELSE IF obj.okind # "TypeName" \/ obj.type.kind # "Named"
            THEN ResolveSkipping(typeSpecs, i + 1, targetTypes, d)
            ELSE IF obj.type.underlying.kind # "Struct"
            THEN ResolveSkipping(typeSpecs, i + 1, targetTypes, d)
            ELSE ResolveSkipping(typeSpecs, i + 1,
                                 Append(targetTypes, obj.type), d)

\* ResolveTargetTypes, the loop from specifier i on
RECURSIVE ResolveFrom(_, _, _, _)
ResolveFrom(typeSpecs, i, targetTypes, d) ==
    IF i > Len(typeSpecs) THEN [targets |-> targetTypes, err |-> NoErr]
    ELSE LET spec == typeSpecs[i]
             lastDot == LastDot(spec)
             importPath == Str(SubSeq(spec, 1, lastDot - 1))
             typeName == Str(SubSeq(spec, lastDot + 1, Len(spec)))
             loaded == Load(importPath, d)
             at == FoundAt(loaded.pkgs, typeName)
             foundPkg == loaded.pkgs[First(at)]
             obj == foundPkg.scope[typeName]
         IN IF lastDot = 0 \/ lastDot = 1 \/ lastDot = Len(spec)
            THEN [targets |-> NoTargets,
                  err |-> "invalid type specification format"]
            ELSE IF loaded.err
            THEN [targets |-> NoTargets, err |-> "failed to load package"]
            ELSE IF Len(loaded.pkgs) = 0
            THEN [targets |-> NoTargets, err |-> "no packages found"]
            ELSE IF at = {}
            THEN [targets |-> NoTargets, err |-> "type not found in package"]
            ELSE IF foundPkg.Errors
            THEN [targets |-> NoTargets, err |-> "errors in package"]
            ELSE IF obj.okind # "TypeName"
            THEN [targets |-> NoTargets, err |-> "is not a type"]
            ELSE IF obj.type.kind # "Named"
            THEN [targets |-> NoTargets, err |-> "is not a named type"]
            ELSE IF obj.type.underlying.kind # "Struct"
            THEN [targets |-> NoTargets, err |-> "is not a struct"]
            ELSE ResolveFrom(typeSpecs, i + 1,
                             Append(targetTypes, obj.type), d)

\* ResolveTargetTypes: the named struct types of the specifiers
\* "importpath.TypeName", or an error and no type
ResolveTargetTypes(typeSpecs, d) ==
    IF Len(typeSpecs) = 0 THEN [targets |-> NoTargets, err |-> NoErr]
    ELSE ResolveFrom(typeSpecs, 1, <<>>, d)

(* ------------------------------- state -------------------------------- *)
VARIABLES
    decl,    \* the fields of the struct type T, in declaration order
    nodes,   \* the composite literals of the decorated file (the dst tree)
    tops,    \* the literals that are not inside another literal, in file order
    option,  \* the Option given to Format: TargetTypes, CustomDefaults
    phase,   \* "loaded": a file is ready for Format; "formatted": Format returned
    result,  \* the *FormatResult Format returned, NoResult for nil
    err,     \* the error Format returned, NoErr for nil
    runs,    \* the number of Format runs so far
    before,  \* the literals as they were when the last run started
    args,     \* the command line: the --type and the --default values
    files,    \* the files packages.Load gives run, in pkg.Syntax order
    disk,     \* what each file holds on storage
    mainpc,   \* where main (and run, which it calls) stands
    spawned,  \* the number of files run has started a goroutine for
    wk,       \* the goroutine of each file: where it stands, its locals
    errCount, \* run's errCount
    exit,     \* the exit of the process: its code and what caused it
    called    \* the files Format has been called on

cliVars == <<args, files, disk, mainpc, spawned, wk, errCount, exit, called>>
vars ==
    <<decl, nodes, tops, option, phase, result, err, runs, before, cliVars>>

\* the process has not exited
Running == [code |-> -1, by |-> "none"]
Exit(c, why) == [code |-> c, by |-> why]
\* a goroutine that has not been started
IdleWorker ==
    [pc |-> "idle", result |-> NoResult, err |-> NoErr, i |-> 0, tmp |-> 0]

\* the command-line driver is not part of the run
NoCli ==
    /\ args = [types |-> <<>>, defaults |-> <<>>]
    /\ files = <<>>
    /\ disk = <<>>
    /\ mainpc = "off"
    /\ spawned = 0
    /\ wk = <<>>
    /\ errCount = 0
    /\ exit = Running
    /\ called = {}

(* ------------------------------- inputs ------------------------------- *)
\* the fields T is declared with in the files that vary the literal's
\* shape: any of these, in any order
ShapeFields ==
    {Field(NameA, StringT), Field(NameB, Address), Field(NameC, IntT),
     Field(Namec, Address)}

\* field types of the struct T in the files that vary the missing field's type
ZooTypes ==
    BasicTypes \cup
    {Pointer(StringT), Slice(IntT), Map(StringT, IntT), Chan(IntT), Signature,
     Interface, Tuple, Struct(<<Field(City, StringT)>>),
     Array(3, IntT), Array(2, Pointer(Address)), Array(12, Slice(StringT)),
     Array(2, Address), Array(2, Status), Array(2, TimeT),
     Array(2, Array(3, IntT)), Array(2, Map(StringT, IntT)),
     Array(2, Struct(<<Field(City, StringT)>>)), Array(1, Chan(IntT)),
     Array(1, Signature), Array(0, Interface),
     Address, Status, Flag, Label, Ratio, Stringer, Tags, Ref, Dict, Queue,
     Hook, Pair, TimeT, Point, URL, ErrorT}

\* field lists of at most n fields with distinct names
Decls(n) ==
    UNION {{d \in [1..k -> ShapeFields] :
               \A i, j \in 1..k : d[i].fname = d[j].fname => i = j} :
           k \in 0..n}

\* the key of each element of a literal, <<>> for a positional element; no
\* two elements are keyed by the same field, and a literal has no more
\* elements than the struct has fields
KeyLists(d) ==
    UNION {{ks \in [1..k -> {<<>>} \cup {d[i].fname : i \in 1..Len(d)}] :
               \A i, j \in 1..k : (ks[i] = ks[j] /\ ks[i] # <<>>) => i = j} :
           k \in 0..Len(d)}

PosDecs(i) == IF i % 2 = 1 THEN DecsNewLine ELSE DecsNone

\* the elements of a source literal with the keys ks; the value of element
\* i is the source expression i, or the literal nodes[sub] at position at
SrcElts(ks, at, sub) ==
    [i \in 1..Len(ks) |->
        [keyed |-> ks[i] # <<>>, Key |-> ks[i],
         Value |-> IF i = at THEN LitRef(sub) ELSE SrcExpr(i),
         Decs |-> PosDecs(i)]]

\* the type of the field an element sets
EltFieldType(d, ks, i) ==
    IF ks[i] # <<>>
    THEN (CHOOSE f \in {d[k] : k \in 1..Len(d)} : f.fname = ks[i]).ftype
    ELSE IF i <= Len(d) THEN d[i].ftype ELSE Invalid

\* the type of a literal of T and the targets given with it.  The literal is
\* T{...}, an elided element {...} of a []*T or []*struct{...} literal, or
\* struct{...}{...}
LitForms(d) ==
    {<<TType(d), <<>>>>, <<TType(d), <<TType(d)>>>>, <<TType(d), <<Address>>>>,
     <<TType(d), <<GeoT>>>>,
     <<Pointer(TType(d)), <<>>>>, <<Pointer(TType(d)), <<Address, TType(d)>>>>,
     <<Struct(d), <<>>>>, <<Struct(d), <<TType(d)>>>>,
     <<Pointer(Struct(d)), <<>>>>}

\* a second literal of the file: Address{}, Address{City: e}, Address{e},
\* []int{e}
SrcTypeExpr == SrcExpr(0)
ExtraLits ==
    {Node(SrcTypeExpr, <<>>, Address),
     Node(SrcTypeExpr, <<KeyValueExpr(City, SrcExpr(1), DecsNone)>>, Address),
     Node(SrcTypeExpr, <<Positional(SrcExpr(1), DecsNone)>>, Address),
     Node(SrcTypeExpr, <<Positional(SrcExpr(1), DecsNone)>>, Slice(IntT))}

NoOverrides == [k \in {} |-> ""]
OverrideTables ==
    {NoOverrides,
     [k \in {"example.com/app.Status", "example.com/app.Address"} |->
         IF k = "example.com/app.Status" THEN "StatusUnknown" ELSE "NoAddress"],
     [k \in {"int", "string", "time.Time", "example.com/app.Tags"} |->
         CASE k = "int" -> "DefaultPort"
           [] k = "string" -> "DefaultName"
           [] k = "time.Time" -> "Epoch"
           [] OTHER -> "NoTags"]}

Start ==
    /\ phase = "loaded"
    /\ result = NoResult
    /\ err = NoErr
    /\ runs = 0
    /\ before = nodes
    /\ NoCli

\* files with one literal of T: any field list, any element list
InitOneLiteral ==
    /\ decl \in Decls(MaxFields)
    /\ \E form \in LitForms(decl), ks \in KeyLists(decl) :
          /\ nodes = <<Node(SrcTypeExpr, SrcElts(ks, 0, 0), form[1])>>
          /\ option = [TargetTypes |-> form[2], CustomDefaults |-> NoOverrides]
    /\ tops = <<1>>
    /\ Start

\* files with a literal of T and a second literal, next to it or as the
\* value of one of its elements
InitTwoLiterals ==
    /\ decl \in Decls(MaxFields - 1)
    /\ \E form \in LitForms(decl), ks \in KeyLists(decl) :
          /\ \/ \E x \in ExtraLits :
                   /\ nodes = <<Node(SrcTypeExpr, SrcElts(ks, 0, 0), form[1]), x>>
                   /\ tops = <<1, 2>>
             \/ \E x \in {y \in ExtraLits : y.tv = Address},
                   at \in {i \in 1..Len(ks) :
                              EltFieldType(decl, ks, i) = Address} :
                   /\ nodes = <<Node(SrcTypeExpr, SrcElts(ks, at, 2), form[1]), x>>
                   /\ tops = <<1>>
          /\ option = [TargetTypes |-> form[2], CustomDefaults |-> NoOverrides]
    /\ Start

\* files with one literal T{} or T{A: e} of a struct T{A string; B t}, for
\* every type t and override table
InitZoo ==
    /\ \E t \in ZooTypes : decl = <<Field(NameA, StringT), Field(NameB, t)>>
    /\ \E ks \in {<<>>, <<NameA>>} :
          nodes = <<Node(SrcTypeExpr, SrcElts(ks, 0, 0), TType(decl))>>
    /\ tops = <<1>>
    /\ \E ov \in OverrideTables :
          option = [TargetTypes |-> <<>>, CustomDefaults |-> ov]
    /\ Start

Init == InitOneLiteral \/ InitTwoLiterals \/ InitZoo

(* ------------------------------- actions ------------------------------ *)
\* one call of Format on the loaded file
FormatFile ==
    /\ phase = "loaded"
    /\ \E fault \in Faults :
          LET r == Format(nodes, tops, option, CurPkg, fault)
          IN /\ nodes' = r.nodes
             /\ result' = r.result
             /\ err' = r.err
    /\ phase' = "formatted"
    /\ runs' = runs + 1
    /\ before' = nodes
    /\ UNCHANGED <<decl, tops, option, cliVars>>

\* the output of a run is written to the file and the package is loaded
\* again, for the next run
Reload ==
    /\ phase = "formatted"
    /\ result.present
    /\ result.Changed
    /\ runs < MaxRuns
    /\ LET f == ParseFile(result.Output, decl, [nodes |-> <<>>, tops |-> <<>>])
       IN /\ nodes' = f.nodes
          /\ tops' = f.tops
          /\ before' = f.nodes
    /\ phase' = "loaded"
    /\ result' = NoResult
    /\ err' = NoErr
    /\ UNCHANGED <<decl, option, runs, cliVars>>

Next == FormatFile \/ Reload

Spec == Init /\ [][Next]_vars

(* ======================= the command-line driver ====================== *)
\* most files of the package run formats
MaxFiles == 2

(* ------------------------------ its inputs ---------------------------- *)
\* --type values: "example.com/app.T" and so on
SpecT == <<"example", ".", "com/app", ".", "T">>
SpecAddress == <<"example", ".", "com/app", ".", "Address">>
SpecPoint == <<"example", ".", "com/geo", ".", "Point">>
GoodTypeSpecs == {SpecT, SpecAddress, SpecPoint}
\* values that do not resolve: a type that is not a struct, an alias of an
\* unnamed type, a function, a name the package does not declare, a package
\* with errors, a pattern matching no package, a package that cannot be
\* loaded, an unknown package, and values without a "." or with nothing
\* before or after it
BadTypeSpecs ==
    {<<"example", ".", "com/app", ".", "Status">>,
     <<"example", ".", "com/app", ".", "Alias">>,
     <<"example", ".", "com/app", ".", "main">>,
     <<"example", ".", "com/app", ".", "Missing">>,
     <<"example", ".", "com/broken", ".", "T">>,
     <<"example", ".", "com/empty", ".", "T">>,
     <<"example", ".", "com/unreadable", ".", "T">>,
     <<"nowhere", ".", "T">>,
     <<"T">>,
     <<".", "T">>,
     <<"example", ".", "com/app", ".">>}
TypeFlagLists ==
    {<<>>, <<SpecT>>, <<SpecAddress>>, <<SpecPoint>>, <<SpecT, SpecAddress>>}
    \cup {<<b>> : b \in BadTypeSpecs}
    \cup {<<SpecT, b>> : b \in BadTypeSpecs}
    \cup {<<b, SpecT>> : b \in BadTypeSpecs}

\* --default values: "int=DefaultPort" and so on
DefInt == <<"int", "=", "DefaultPort">>
DefStatus ==
    <<" ", "example", ".", "com/app", ".", "Status", " ", "=", " ",
      "StatusUnknown", " ">>
DefTwoEquals == <<"string", "=", "a", "=", "b">>
GoodDefaultSpecs == {DefInt, DefStatus, DefTwoEquals}
\* malformed values: no "=", the empty string, nothing or only white space
\* before the "=", nothing or only white space after it
BadDefaultSpecs ==
    {<<"int">>,
     <<>>,
     <<"=", "DefaultPort">>,
     <<" ", "=", "DefaultPort">>,
     <<"int", "=">>,
     <<"int", "=", " ", " ">>}
DefaultFlagLists ==
    {<<>>, <<DefInt>>, <<DefStatus, DefInt>>, <<DefTwoEquals>>}
    \cup {<<b>> : b \in BadDefaultSpecs}
    \cup {<<DefInt, b>> : b \in BadDefaultSpecs}
    \cup {<<b, DefInt>> : b \in BadDefaultSpecs}

\* the struct T of the package the driver formats
CliDecl == <<Field(NameA, StringT), Field(NameB, Address), Field(NameC, IntT)>>

\* a file of the package: its literals, and the number of site-level
\* FormatErrors the transform reports for it
SourceFile(ns, ts, n) == [nodes |-> ns, tops |-> ts, siteErrors |-> n]
\* files holding T{A: e}, T{A: e, B: e, C: e} and Address{}
PartialT == <<Node(SrcTypeExpr, SrcElts(<<NameA>>, 0, 0), TType(CliDecl))>>
CompleteT ==
    <<Node(SrcTypeExpr, SrcElts(<<NameA, NameB, NameC>>, 0, 0), TType(CliDecl))>>
EmptyAddress == <<Node(SrcTypeExpr, <<>>, Address)>>
SourceFiles ==
    {SourceFile(PartialT, <<1>>, 0), SourceFile(PartialT, <<1>>, 1),
     SourceFile(CompleteT, <<1>>, 1), SourceFile(EmptyAddress, <<1>>, 0)}

\* what a file holds on storage: its source text, nothing yet (opened and
\* truncated by os.WriteFile), or the bytes written
Original == [kind |-> "original"]
Truncated == [kind |-> "truncated"]
Written(out) == [kind |-> "written", text |-> out]

\* the site-level errors of a result
FormatError(msg, pos) == [Message |-> msg, PosText |-> pos]
SiteErrors(n) == [k \in 1..n |-> FormatError("site", SprintfD(k))]

\* Format on a file for which the transform reports n site-level errors
FormatReporting(file, opt, pkg, fault) ==
    LET r == Format(file.nodes, file.tops, opt, pkg, fault)
    IN IF r.result.present
       THEN [r EXCEPT !.result.Errors = SiteErrors(file.siteErrors)]
       ELSE r

CliStart ==
    /\ decl = CliDecl
    /\ nodes = <<>>
    /\ tops = <<>>
    /\ option = [TargetTypes |-> <<>>, CustomDefaults |-> NoOverrides]
    /\ phase = "cli"
    /\ result = NoResult
    /\ err = NoErr
    /\ runs = 0
    /\ before = <<>>
    /\ disk = [f \in 1..Len(files) |-> Original]
    /\ mainpc = "flags"
    /\ spawned = 0
    /\ wk = [f \in 1..Len(files) |-> IdleWorker]
    /\ errCount = 0
    /\ exit = Running
    /\ called = {}

\* any command line, over a package of two files
InitFlags ==
    /\ \E ts \in TypeFlagLists, ds \in DefaultFlagLists :
          args = [types |-> ts, defaults |-> ds]
    /\ files = <<SourceFile(PartialT, <<1>>, 0), SourceFile(EmptyAddress, <<1>>, 0)>>
    /\ CliStart

\* a well-formed command line, over any package of at most MaxFiles files
InitFiles ==
    /\ \E ts \in {<<SpecT>>, <<SpecT, SpecAddress>>},
          ds \in {<<>>, <<DefInt>>} :
          args = [types |-> ts, defaults |-> ds]
    /\ files \in UNION {[1..n -> SourceFiles] : n \in 0..MaxFiles}
    /\ CliStart

CliInit == InitFlags \/ InitFiles

(* --------------------------------- main ------------------------------- *)
\* the actions of the driver leave the single-file run alone
CliFrame == UNCHANGED <<decl, nodes, tops, phase, result, err, runs, before>>

\* main: without a --type flag there is nothing to do
MainFlags ==
    /\ mainpc = "flags"
    /\ exit = Running
    /\ IF Len(args.types) = 0
       THEN exit' = Exit(0, "flags") /\ mainpc' = "exited"
       ELSE exit' = exit /\ mainpc' = "resolve"
    /\ UNCHANGED <<args, files, disk, spawned, wk, errCount, called, option>>
    /\ CliFrame

\* main: ResolveTargetTypes(typeFlags, dir)
MainResolve ==
    /\ mainpc = "resolve"
    /\ exit = Running
    /\ LET r == ResolveTargetTypes(args.types, decl)
       IN IF r.err # NoErr
          THEN /\ exit' = Exit(1, "resolve")
               /\ mainpc' = "exited"
               /\ option' = option
          ELSE /\ exit' = exit
               /\ mainpc' = "parse"
               /\ option' = [option EXCEPT !.TargetTypes = r.targets]
    /\ UNCHANGED <<args, files, disk, spawned, wk, errCount, called>>
    /\ CliFrame

\* main: parseDefaultValues(defaultFlags), then the Option for run
MainParse ==
    /\ mainpc = "parse"
    /\ exit = Running
    /\ LET r == parseDefaultValues(args.defaults)
       IN IF r.err # NoErr
          THEN /\ exit' = Exit(1, "parse")
               /\ mainpc' = "exited"
               /\ option' = option
          ELSE /\ exit' = exit
               /\ mainpc' = "load"
               /\ option' = [option EXCEPT !.CustomDefaults = r.defaults]
    /\ UNCHANGED <<args, files, disk, spawned, wk, errCount, called>>
    /\ CliFrame

(* --------------------------------- run -------------------------------- *)
\* run: packages.Load(cfg, dir); a failure is run's error and main exits
RunLoad ==
    /\ mainpc = "load"
    /\ exit = Running
    /\ \E ok \in BOOLEAN :
          IF ok
          THEN /\ mainpc' = IF Len(files) = 0 THEN "wait" ELSE "spawn"
               /\ exit' = exit
          ELSE /\ mainpc' = "exited"
               /\ exit' = Exit(1, "load")
    /\ UNCHANGED <<args, files, disk, spawned, wk, errCount, called, option>>
    /\ CliFrame

\* run: waitGroup.Add(1); go format(pkg, file, &waitGroup), for the next file
RunSpawn ==
    /\ mainpc = "spawn"
    /\ exit = Running
    /\ spawned < Len(files)
    /\ spawned' = spawned + 1
    /\ wk' = [wk EXCEPT ![spawned + 1].pc = "format"]
    /\ mainpc' = IF spawned + 1 = Len(files) THEN "wait" ELSE "spawn"
    /\ UNCHANGED <<args, files, disk, errCount, exit, called, option>>
    /\ CliFrame

\* format: fillstruct.Format(pkg, file, option); an error ends the process
WorkerFormat(f) ==
    /\ wk[f].pc = "format"
    /\ exit = Running
    /\ called' = called \cup {f}
    /\ \E fault \in Faults :
          LET r == FormatReporting(files[f], option, CurPkg, fault)
          IN IF r.err # NoErr
             THEN /\ exit' = Exit(1, "format")
                  /\ wk' = [wk EXCEPT ![f].err = r.err, ![f].pc = "exited"]
             ELSE /\ exit' = exit
                  /\ wk' = [wk EXCEPT ![f].result = r.result,
                                      ![f].pc = "errors"]
    /\ UNCHANGED <<args, files, disk, mainpc, spawned, errCount, option>>
    /\ CliFrame

\* format: errCount += 1 for the next of result.Errors, the read of errCount
WorkerRead(f) ==
    /\ wk[f].pc = "errors"
    /\ exit = Running
    /\ wk[f].i < Len(wk[f].result.Errors)
    /\ wk' = [wk EXCEPT ![f].tmp = errCount, ![f].pc = "store"]
    /\ UNCHANGED <<args, files, disk, mainpc, spawned, errCount, exit, called,
                   option>>
    /\ CliFrame

\* format: errCount += 1, the write of errCount
WorkerStore(f) ==
    /\ wk[f].pc = "store"
    /\ exit = Running
    /\ errCount' = wk[f].tmp + 1
    /\ wk' = [wk EXCEPT ![f].i = wk[f].i + 1, ![f].pc = "errors"]
    /\ UNCHANGED <<args, files, disk, mainpc, spawned, exit, called, option>>
    /\ CliFrame

\* format writing every file Format returned a result for (mutation of
\* WorkerChanged)
WorkerWritesAlways(f) ==
    /\ wk[f].pc = "errors"
    /\ exit = Running
    /\ wk[f].i = Len(wk[f].result.Errors)
    /\ wk' = [wk EXCEPT ![f].pc = "write"]
    /\ UNCHANGED <<args, files, disk, mainpc, spawned, errCount, exit, called,
                   option>>
    /\ CliFrame

\* format: after the errors, if !result.Changed { return }
WorkerChanged(f) ==
    /\ wk[f].pc = "errors"
    /\ exit = Running
    /\ wk[f].i = Len(wk[f].result.Errors)
    /\ wk' = [wk EXCEPT ![f].pc =
                 IF wk[f].result.Changed THEN "write" ELSE "done"]
    /\ UNCHANGED <<args, files, disk, mainpc, spawned, errCount, exit, called,
                   option>>
    /\ CliFrame

\* format: os.WriteFile(result.Path, result.Output, 0644) opens the file and
\* truncates it; a failure ends the process
WorkerOpen(f) ==
    /\ wk[f].pc = "write"
    /\ exit = Running
    /\ \E ok \in BOOLEAN :
          IF ok
          THEN /\ disk' = [disk EXCEPT ![f] = Truncated]
               /\ wk' = [wk EXCEPT ![f].pc = "writing"]
               /\ exit' = exit
          ELSE /\ disk' = disk
               /\ wk' = [wk EXCEPT ![f].pc = "exited"]
               /\ exit' = Exit(1, "write")
    /\ UNCHANGED <<args, files, mainpc, spawned, errCount, called, option>>
    /\ CliFrame

\* format: os.WriteFile writes the bytes and closes the file, then the
\* deferred wg.Done(); a failure ends the process
WorkerWrite(f) ==
    /\ wk[f].pc = "writing"
    /\ exit = Running
    /\ \E ok \in BOOLEAN :
          IF ok
          THEN /\ disk' = [disk EXCEPT ![f] = Written(wk[f].result.Output)]
               /\ wk' = [wk EXCEPT ![f].pc = "done"]
               /\ exit' = exit
          ELSE /\ disk' = disk
               /\ wk' = [wk EXCEPT ![f].pc = "exited"]
               /\ exit' = Exit(1, "write")
    /\ UNCHANGED <<args, files, mainpc, spawned, errCount, called, option>>
    /\ CliFrame

\* run: waitGroup.Wait(), then the error for errCount > 0; main exits
RunWait ==
    /\ mainpc = "wait"
    /\ exit = Running
    /\ \A f \in 1..Len(files) : wk[f].pc = "done"
    /\ mainpc' = "exited"
    /\ exit' = IF errCount > 0 THEN Exit(1, "run") ELSE Exit(0, "run")
    /\ UNCHANGED <<args, files, disk, spawned, wk, errCount, called, option>>
    /\ CliFrame

CliNext ==
    \/ MainFlags
    \/ MainResolve
    \/ MainParse
    \/ RunLoad
    \/ RunSpawn
    \/ \E f \in 1..Len(files) : WorkerFormat(f)
    \/ \E f \in 1..Len(files) : WorkerRead(f)
    \/ \E f \in 1..Len(files) : WorkerStore(f)
    \/ \E f \in 1..Len(files) : WorkerChanged(f)
    \/ \E f \in 1..Len(files) : WorkerOpen(f)
    \/ \E f \in 1..Len(files) : WorkerWrite(f)
    \/ RunWait

CliSpec == CliInit /\ [][CliNext]_vars

(* ----------------------- vocabulary of the claims --------------------- *)
\* Format has returned
Done == phase = "formatted"
\* Format has returned a result (and no error)
Returned == Done /\ result.present
\* the walk over the literals took place (DecorateFile did not fail)
Walked == Done /\ err # "failed to decorate file"

\* the declared fields of a literal's struct type, <<>> if it has none
LitFields(ty) ==
    CASE ty.kind = "Struct" -> ty.fields
      [] ty.kind = "Named" /\ ty.underlying.kind = "Struct" ->
           ty.underlying.fields
      [] ty.kind = "Pointer" /\ ty.elem.kind = "Named"
            /\ ty.elem.underlying.kind = "Struct" -> ty.elem.underlying.fields
      [] OTHER -> <<>>

\* the literal builds a struct: its type is a struct type, a named struct
\* type or a pointer to a named struct type
IsStructLit(ty) ==
    \/ ty.kind = "Struct"
    \/ ty.kind = "Named" /\ ty.underlying.kind = "Struct"
    \/ ty.kind = "Pointer" /\ ty.elem.kind = "Named"
          /\ ty.elem.underlying.kind = "Struct"

IsExportedName(n) == n # <<>> /\ Head(n) \in UpperRunes
KeysOf(elts) == {elts[i].Key : i \in {j \in 1..Len(elts) : elts[j].keyed}}
HasPositional(elts) == \E i \in 1..Len(elts) : ~elts[i].keyed

\* the positions, in the declaration, of the exported fields no element sets
MissingExported(lit) ==
    {i \in 1..Len(LitFields(lit.tv)) :
        /\ IsExportedName(LitFields(lit.tv)[i].fname)
        /\ LitFields(lit.tv)[i].fname \notin KeysOf(lit.Elts)}
\* the same for the unexported fields
MissingUnexported(lit) ==
    {i \in 1..Len(LitFields(lit.tv)) :
        /\ ~IsExportedName(LitFields(lit.tv)[i].fname)
        /\ LitFields(lit.tv)[i].fname \notin KeysOf(lit.Elts)}

\* the target set accepts the literal's type
Accepted(ty) ==
    \/ option.TargetTypes = <<>>
    \/ LET nt == IF ty.kind = "Pointer" THEN ty.elem ELSE ty
       IN /\ nt.kind = "Named"
          /\ \E i \in 1..Len(option.TargetTypes) :
                /\ option.TargetTypes[i].pkgPath = nt.pkgPath
                /\ option.TargetTypes[i].name = nt.name

\* a candidate literal: struct-typed, every element keyed, type accepted
Candidate(lit) ==
    IsStructLit(lit.tv) /\ ~HasPositional(lit.Elts) /\ Accepted(lit.tv)

\* the literals of the tree (ns, roots): the roots and what is below them
RECURSIVE InTree(_, _)
InTree(ns, roots) ==
    IF roots = {} THEN {}
    ELSE roots \cup
         InTree(ns, UNION {{ns[r].Elts[i].Value.node :
                              i \in {j \in 1..Len(ns[r].Elts) :
                                        ns[r].Elts[j].Value.kind = "LitRef"}} :
                           r \in roots})
TopSet == {tops[i] : i \in 1..Len(tops)}
\* the literals of the file when the run started
FileLits == InTree(before, TopSet)

\* Format rewrote the literal n
Rewritten(n) == nodes[n].Elts # before[n].Elts
\* the positions of the elements of literal n that Format created
NewAt(n) ==
    {j \in 1..Len(nodes[n].Elts) :
        nodes[n].Elts[j].keyed /\ nodes[n].Elts[j].Key \notin KeysOf(before[n].Elts)}
\* the declared type of the field a name denotes in literal n
FieldTypeOf(n, name) ==
    (CHOOSE f \in {LitFields(before[n].tv)[i] :
                      i \in 1..Len(LitFields(before[n].tv))} :
        f.fname = name).ftype
\* the position of a field in the declaration of literal n's struct type
DeclIndex(n, name) ==
    CHOOSE i \in 1..Len(LitFields(before[n].tv)) :
        LitFields(before[n].tv)[i].fname = name

\* the key of a type in the custom-defaults table, as the claims state it
ClaimKey(t) ==
    CASE t.kind = "Named" -> t.pkgPath \o "." \o t.name
      [] t.kind = "Basic" -> t.name
      [] OTHER -> ""
HasOverride(t) == ClaimKey(t) # "" /\ ClaimKey(t) \in DOMAIN option.CustomDefaults

(* -------------------------------- claims ------------------------------ *)
\* C1 (as claimed): a candidate literal of the file (struct-typed, all
\* elements keyed, accepted by the targets) that lacks an exported field
\* makes Format return Changed = true, and after the run it holds exactly
\* one keyed element per exported declared field, each missing field with
\* its default value.
C1_MissingFieldsFilled ==
    Walked =>
        \A n \in FileLits :
            (Candidate(before[n]) /\ MissingExported(before[n]) # {}) =>
                /\ Returned => result.Changed
                /\ \A i \in 1..Len(LitFields(before[n].tv)) :
                      LET f == LitFields(before[n].tv)[i]
                          at == {j \in 1..Len(nodes[n].Elts) :
                                    nodes[n].Elts[j].keyed
                                    /\ nodes[n].Elts[j].Key = f.fname}
                      IN IsExportedName(f.fname) =>
                            /\ Cardinality(at) = 1
                            /\ i \in MissingExported(before[n]) =>
                                  \A j \in at :
                                      nodes[n].Elts[j].Value =
                                          defaultFor(f.ftype,
                                                     option.CustomDefaults,
                                                     CurPkg)

\* C2: a struct literal in which no exported declared field is missing keeps
\* its element list, and a file in which this holds for every struct literal
\* makes Format return Changed = false with no Output.
C2_CompleteLiteralUntouched ==
    Walked =>
        /\ \A n \in FileLits :
              (IsStructLit(before[n].tv) /\ MissingExported(before[n]) = {}) =>
                  nodes[n] = before[n]
        /\ (Returned /\ \A n \in FileLits :
                           IsStructLit(before[n].tv) =>
                               MissingExported(before[n]) = {}) =>
              (~result.Changed /\ result.Output = <<>>)

\* C2 witness: a complete, keyed literal of an accepted type, whose elements
\* are not in declaration order, went through a run
C2_Witness ==
    /\ Returned
    /\ ~result.Changed
    /\ \E n \in FileLits :
          /\ Candidate(before[n])
          /\ MissingExported(before[n]) = {}
          /\ Len(before[n].Elts) >= 2
          /\ DeclIndex(n, before[n].Elts[1].Key) >
                DeclIndex(n, before[n].Elts[2].Key)

\* C3 (as claimed): a run of Format on the output of the run before it
\* returns Changed = false.
C3_SecondRunUnchanged ==
    (Returned /\ runs >= 2) => ~result.Changed

\* C4: a struct literal with at least one positional element is left as it
\* is, and a file whose struct literals all have one makes Format return
\* Changed = false.
C4_PositionalUntouched ==
    Walked =>
        /\ \A n \in FileLits :
              (IsStructLit(before[n].tv) /\ HasPositional(before[n].Elts)) =>
                  nodes[n] = before[n]
        /\ (Returned /\ \A n \in FileLits :
                           IsStructLit(before[n].tv) =>
                               HasPositional(before[n].Elts)) =>
              ~result.Changed

\* C4 witness: a literal of an accepted type that starts with a keyed
\* element, has a positional one, and sets fewer fields than are declared
C4_Witness ==
    /\ Returned
    /\ \E n \in FileLits :
          /\ IsStructLit(before[n].tv)
          /\ Accepted(before[n].tv)
          /\ HasPositional(before[n].Elts)
          /\ before[n].Elts[1].keyed
          /\ MissingExported(before[n]) # {}

\* C5: the keys of a rewritten literal are in declaration order.
C5_DeclarationOrder ==
    Walked =>
        \A n \in FileLits :
            Rewritten(n) =>
                \A i, j \in 1..Len(nodes[n].Elts) :
                    i < j =>
                        /\ nodes[n].Elts[i].keyed
                        /\ nodes[n].Elts[j].keyed
                        /\ DeclIndex(n, nodes[n].Elts[i].Key) <
                              DeclIndex(n, nodes[n].Elts[j].Key)

\* C5 witness: a rewritten literal whose first two elements were keyed
\* against the declaration order
C5_Witness ==
    /\ Walked
    /\ \E n \in FileLits :
          /\ Rewritten(n)
          /\ Len(before[n].Elts) >= 2
          /\ before[n].Elts[1].keyed
          /\ before[n].Elts[2].keyed
          /\ DeclIndex(n, before[n].Elts[1].Key) >
                DeclIndex(n, before[n].Elts[2].Key)

\* C6 (as claimed): every element of a literal Format rewrites is in the new
\* element list exactly once, unchanged.
C6_ExistingEntriesKept ==
    Walked =>
        \A n \in FileLits :
            Rewritten(n) =>
                \A i \in 1..Len(before[n].Elts) :
                    Cardinality({j \in 1..Len(nodes[n].Elts) :
                                    nodes[n].Elts[j] = before[n].Elts[i]}) = 1

\* C7: an unexported declared field that a literal does not set is not set
\* after the run either, and a struct literal whose absent fields are all
\* unexported is not rewritten; a file with just that literal makes Format
\* return Changed = false.
C7_UnexportedNeverInserted ==
    Walked =>
        \A n \in FileLits :
            /\ \A i \in MissingUnexported(before[n]) :
                  LitFields(before[n].tv)[i].fname \notin KeysOf(nodes[n].Elts)
            /\ (IsStructLit(before[n].tv)
                /\ MissingUnexported(before[n]) # {}
                /\ MissingExported(before[n]) = {}) =>
                  /\ nodes[n] = before[n]
                  /\ (Returned /\ FileLits = {n}) => ~result.Changed

\* C7 witness: the only literal of the file sets every exported field of
\* its struct and not the unexported one, and Format returned Changed = false
C7_Witness ==
    /\ Returned
    /\ ~result.Changed
    /\ \E n \in FileLits :
          /\ FileLits = {n}
          /\ Candidate(before[n])
          /\ MissingUnexported(before[n]) # {}
          /\ MissingExported(before[n]) = {}
          /\ Len(LitFields(before[n].tv)) >= 2

\* C8: a new element whose field type has an entry in the custom-defaults
\* table holds a bare reference to the entry's replacement name.
C8_OverrideWins ==
    Walked =>
        \A n \in FileLits :
            \A j \in NewAt(n) :
                LET t == FieldTypeOf(n, nodes[n].Elts[j].Key)
                IN HasOverride(t) =>
                      nodes[n].Elts[j].Value =
                          Ident(option.CustomDefaults[ClaimKey(t)])

\* C8 witness: Status=StatusUnknown is given and a Status field was filled
C8_Witness ==
    /\ Returned
    /\ result.Changed
    /\ \E n \in FileLits :
          \E j \in NewAt(n) :
              /\ FieldTypeOf(n, nodes[n].Elts[j].Key) = Status
              /\ HasOverride(Status)
              /\ nodes[n].Elts[j].Value = Ident("StatusUnknown")

NilKinds == {"Pointer", "Slice", "Map", "Chan", "Signature", "Interface"}

\* C9 (as claimed): a new element whose field type is, or is a named type
\* over, a pointer, slice, map, channel, function or interface type, and has
\* no override, holds nil.
C9_NilForReferenceKinds ==
    Walked =>
        \A n \in FileLits :
            \A j \in NewAt(n) :
                LET t == FieldTypeOf(n, nodes[n].Elts[j].Key)
                IN (Underlying(t).kind \in NilKinds /\ ~HasOverride(t)) =>
                      nodes[n].Elts[j].Value = Ident("nil")

IntegerKinds == {"Int", "Int8", "Int16", "Int32", "Int64"}
UnsignedKinds == {"Uint", "Uint8", "Uint16", "Uint32", "Uint64", "Uintptr"}
FloatKinds == {"Float32", "Float64"}
ComplexKinds == {"Complex64", "Complex128"}

\* C10: a new element whose field type is, or is a named type over, a basic
\* type, and has no override, holds false for bool, "" for string and 0 for
\* the integer, unsigned, floating-point and complex kinds.
C10_BasicZeroValues ==
    Walked =>
        \A n \in FileLits :
            \A j \in NewAt(n) :
                LET t == FieldTypeOf(n, nodes[n].Elts[j].Key)
                    k == Underlying(t).bkind
                    v == nodes[n].Elts[j].Value
                IN (Underlying(t).kind = "Basic" /\ ~HasOverride(t)) =>
                      /\ k = "Bool" => v = Ident("false")
                      /\ k = "String" => v = BasicLit("STRING", "\"\"")
                      /\ k \in IntegerKinds \cup UnsignedKinds \cup FloatKinds
                                  \cup ComplexKinds =>
                            v = BasicLit("INT", "0")

\* C10 witness: a field of a named type over a complex-free numeric basic
\* type, and a field of type complex128, were filled with 0
C10_Witness ==
    /\ Returned
    /\ result.Changed
    /\ \E n \in FileLits :
          \E j \in NewAt(n) :
              /\ FieldTypeOf(n, nodes[n].Elts[j].Key) \in
                    {Ratio, Basic("Complex128", "complex128")}
              /\ ~HasOverride(FieldTypeOf(n, nodes[n].Elts[j].Key))
              /\ nodes[n].Elts[j].Value = BasicLit("INT", "0")

\* C11: a new element whose field type is a named type over a struct type,
\* and has no override, holds an empty composite literal of that type:
\* pkgName.TypeName{} when the type's package is not the package of the file,
\* TypeName{} when it is.
C11_NamedStructLiteral ==
    Walked =>
        \A n \in FileLits :
            \A j \in NewAt(n) :
                LET t == FieldTypeOf(n, nodes[n].Elts[j].Key)
                    v == nodes[n].Elts[j].Value
                IN (t.kind = "Named" /\ t.underlying.kind = "Struct"
                    /\ ~HasOverride(t)) =>
                      /\ v.kind = "CompositeLit"
                      /\ v.Elts = <<>>
                      /\ v.Type =
                            IF t.pkgPath # CurPkgPath
                            THEN SelectorExpr(Ident(t.pkgName), Ident(t.name))
                            ELSE Ident(t.name)

\* C11 witness: in one file a field of type time.Time was filled with
\* time.Time{}; in another a field of type Address with Address{}
C11_Witness ==
    /\ Returned
    /\ result.Changed
    /\ \E n \in FileLits :
          \E j \in NewAt(n) :
              LET t == FieldTypeOf(n, nodes[n].Elts[j].Key)
              IN /\ t = TimeT
                 /\ ~HasOverride(t)
                 /\ nodes[n].Elts[j].Value =
                       CompositeLit(SelectorExpr(Ident("time"), Ident("Time")))

\* the literals that are element values of literal p when the run started
ChildrenOf(p) ==
    {before[p].Elts[i].Value.node :
        i \in {j \in 1..Len(before[p].Elts) :
                  before[p].Elts[j].Value.kind = "LitRef"}}

\* C12: a literal whose type the target set does not accept (with targets
\* given: an anonymous struct literal, or a literal whose named type, after
\* at most one pointer, agrees with no target in package path and type name)
\* is left as it is, also when the literal around it is rewritten; and a
\* candidate literal lacking an exported field is rewritten also when the
\* literal around it is not accepted.
C12_OnlyTargetsModified ==
    Walked =>
        /\ \A n \in FileLits :
              /\ Rewritten(n) => Accepted(before[n].tv)
              /\ (option.TargetTypes # <<>>
                  /\ (before[n].tv.kind = "Struct" \/ ~Accepted(before[n].tv))) =>
                    nodes[n] = before[n]
        /\ \A p \in FileLits :
              \A n \in ChildrenOf(p) :
                  (~Accepted(before[p].tv) /\ Candidate(before[n])
                   /\ MissingExported(before[n]) # {}) =>
                      Rewritten(n)

\* C12 witness: targets are given, a literal of a target type was rewritten,
\* and the literal nested in it, of a non-target struct type and lacking an
\* exported field, was left alone
C12_Witness ==
    /\ Returned
    /\ option.TargetTypes # <<>>
    /\ \E p \in FileLits :
          /\ Rewritten(p)
          /\ \E n \in ChildrenOf(p) :
                /\ IsStructLit(before[n].tv)
                /\ ~Accepted(before[n].tv)
                /\ ~HasPositional(before[n].Elts)
                /\ MissingExported(before[n]) # {}
                /\ nodes[n] = before[n]
                /\ \E i \in 1..Len(nodes[p].Elts) :
                      nodes[p].Elts[i].Value = LitRef(n)

\* a second case of C12: the enclosing literal is of a non-target type and
\* the nested literal, of a target type, was rewritten
C12_NestedTargetRewritten ==
    /\ Returned
    /\ \E p \in FileLits :
          /\ IsStructLit(before[p].tv)
          /\ ~Accepted(before[p].tv)
          /\ \E n \in ChildrenOf(p) : Rewritten(n)

\* C13: Format returns a result and no error, or an error and no result;
\* a returned result has an Output exactly when Changed is true, and Changed
\* is true exactly when some literal of the file was rewritten.
C13_ResultShape ==
    Done =>
        /\ result.present <=> (err = NoErr)
        /\ result.present =>
              /\ (result.Output # <<>>) <=> result.Changed
              /\ result.Changed <=> (\E n \in FileLits : Rewritten(n))

\* C13 witness: a file with two literals, one rewritten and one left alone,
\* came back with Changed = true and an Output
C13_Witness ==
    /\ Returned
    /\ err = NoErr
    /\ result.Changed
    /\ result.Output # <<>>
    /\ \E n, m \in FileLits : Rewritten(n) /\ ~Rewritten(m)

\* further cases of C13: an unchanged file, and a failed run
C13_UnchangedReached ==
    Returned /\ ~result.Changed /\ result.Output = <<>> /\ FileLits # {}
C13_ErrorReached ==
    Done /\ ~result.present /\ err # NoErr /\ \E n \in FileLits : Rewritten(n)

\* C18 (as claimed): a new element whose field type is an array type [N]E
\* holds an empty composite literal whose type expression is an array type
\* of length N with an element type expression that denotes E, whatever the
\* custom-defaults table holds.
C18_ArrayLiteral ==
    Walked =>
        \A n \in FileLits :
            \A j \in NewAt(n) :
                LET t == FieldTypeOf(n, nodes[n].Elts[j].Key)
                    v == nodes[n].Elts[j].Value
                IN t.kind = "Array" =>
                      /\ v.kind = "CompositeLit"
                      /\ v.Elts = <<>>
                      /\ v.Type.kind = "ArrayType"
                      /\ v.Type.Len = BasicLit("INT", SprintfD(t.len))
                      /\ TypeOfExpr(v.Type.Elt, decl) = t.elem

(* ---------------------- claims about the driver ----------------------- *)
FileIds == 1..Len(files)
\* Format returned a result to the goroutine of file f
HasResult(f) == wk[f].result.present
\* Format returned an error to the goroutine of file f
HasError(f) == wk[f].err # NoErr

\* C14: a file on storage differs from its source (truncated or written)
\* only when Format has been called on it and returned a result with
\* Changed = true, and what is written is that result's Output; a file whose
\* result has Changed = false, and a file Format returned an error for, hold
\* their source text.
C14_WriteOnlyWhenChanged ==
    \A f \in FileIds :
        /\ disk[f] # Original =>
              /\ f \in called
              /\ HasResult(f)
              /\ wk[f].result.Changed
        /\ disk[f].kind = "written" => disk[f].text = wk[f].result.Output
        /\ (HasResult(f) /\ ~wk[f].result.Changed) => disk[f] = Original
        /\ HasError(f) => disk[f] = Original
        /\ f \notin called => disk[f] = Original

\* C14 witness: run is over; one file was written with the Output of its
\* result, another, whose result has Changed = false, holds its source text
C14_Witness ==
    /\ exit.by = "run"
    /\ \E f, g \in FileIds :
          /\ wk[f].result.Changed
          /\ disk[f] = Written(wk[f].result.Output)
          /\ HasResult(g)
          /\ ~wk[g].result.Changed
          /\ disk[g] = Original

\* a further case of C14: Format failed on a file that has a missing field
\* (printing or formatting failure) and the file holds its source text
C14_FailedFileReached ==
    \E f \in FileIds :
        /\ wk[f].err \in {"failed to print dst file", "failed to format source"}
        /\ exit = Exit(1, "format")
        /\ disk[f] = Original

\* the number of site-level FormatErrors in the results of the files 1..n
RECURSIVE ReportedErrors(_)
ReportedErrors(n) ==
    IF n = 0 THEN 0
    ELSE ReportedErrors(n - 1)
         + (IF HasResult(n) THEN Len(wk[n].result.Errors) ELSE 0)

Blank(s) == \A i \in 1..Len(s) : s[i] = " "
\* a --default value with no "=", or with nothing but white space before
\* or after its first "="
Malformed(spec) ==
    LET at == {i \in 1..Len(spec) : spec[i] = "="}
        eq == CHOOSE i \in at : \A j \in at : i <= j
    IN \/ at = {}
       \/ Blank(SubSeq(spec, 1, eq - 1))
       \/ Blank(SubSeq(spec, eq + 1, Len(spec)))
SomeMalformed == \E i \in 1..Len(args.defaults) : Malformed(args.defaults[i])
\* main has called parseDefaultValues
Parsed ==
    \/ mainpc \in {"load", "spawn", "wait"}
    \/ exit.by \in {"parse", "load", "format", "write", "run"}

\* C16: when some --default value is malformed, parseDefaultValues returns
\* an error and a nil table, main exits on it with no Option built from the
\* values, and at no time has Format been called on a file or a file been
\* written.
C16_MalformedDefaultsRejected ==
    SomeMalformed =>
        /\ parseDefaultValues(args.defaults).err # NoErr
        /\ parseDefaultValues(args.defaults).defaults = NilMap
        /\ Parsed => (exit = Exit(1, "parse")
                      /\ option.CustomDefaults = NilMap)
        /\ called = {}
        /\ \A f \in FileIds : wk[f].pc = "idle" /\ disk[f] = Original

\* C16 witness: the second --default value is malformed, the first is not;
\* the type flags resolved, main exited on the parse error, and the package
\* has files with missing fields that were left alone
C16_Witness ==
    /\ exit = Exit(1, "parse")
    /\ option.TargetTypes # <<>>
    /\ Len(args.defaults) = 2
    /\ ~Malformed(args.defaults[1])
    /\ Malformed(args.defaults[2])
    /\ Len(files) > 0
    /\ called = {}

\* a further case of C16: well-formed values give a table that maps each
\* trimmed type part to its trimmed replacement part
C16_TableReached ==
    /\ mainpc = "load"
    /\ args.defaults = <<DefStatus, DefInt>>
    /\ option.CustomDefaults =
          [k \in {"example.com/app.Status", "int"} |->
              IF k = "int" THEN "DefaultPort" ELSE "StatusUnknown"]

\* some --type value does not resolve: it is malformed, its package or type
\* is not found, or it names something that is not a named struct type
SomeUnresolvable == \E i \in 1..Len(args.types) : args.types[i] \in BadTypeSpecs
\* main has called ResolveTargetTypes
Resolved ==
    \/ mainpc \in {"parse", "load", "spawn", "wait"}
    \/ exit.by \in {"resolve", "parse", "load", "format", "write", "run"}

\* C17: when some --type value does not resolve, ResolveTargetTypes returns
\* an error and no type, not even those of the values before it; main exits
\* on it with no target in the Option, and at no time has Format been called
\* on a file or a file been written.
C17_ResolveAllOrNothing ==
    SomeUnresolvable =>
        /\ ResolveTargetTypes(args.types, decl).err # NoErr
        /\ ResolveTargetTypes(args.types, decl).targets = NoTargets
        /\ Resolved => (exit = Exit(1, "resolve") /\ option.TargetTypes = <<>>)
        /\ called = {}
        /\ \A f \in FileIds : wk[f].pc = "idle" /\ disk[f] = Original

\* C17 witness: the first --type value resolves and the second does not;
\* main exited on the error, over a package with files
C17_Witness ==
    /\ exit = Exit(1, "resolve")
    /\ Len(args.types) = 2
    /\ args.types[1] \in GoodTypeSpecs
    /\ args.types[2] \in BadTypeSpecs
    /\ option.TargetTypes = <<>>
    /\ Len(files) > 0
    /\ called = {}

\* a further case of C17: values that resolve give their types, in order
C17_TargetsReached ==
    /\ mainpc = "parse"
    /\ args.types = <<SpecT, SpecAddress>>
    /\ option.TargetTypes = <<TType(decl), Address>>

====
